---- MODULE Spec2Model ----
(***************************************************************************)
(* Model of the rPPG heart-rate estimator: HeartRateDetector               *)
(* (hbtest/js/heart-rate-detector.js) driving a SignalProcessor            *)
(* (signal-processing.js, the second class of src/unnamed/part_001).       *)
(*                                                                         *)
(* Abstractions.                                                           *)
(*  - A sample is identified by its arrival number since the last reset    *)
(*    (the k-th addDataPoint pushes the value k); the floating-point value *)
(*    of a sample is not modelled.                                         *)
(*  - The filter chain, the window and the FFT are not computed.  What the *)
(*    estimator reads from the spectrum is the bin findRobustPeakFrequency *)
(*    returns (0 for "no peak"), an input of each estimate; what           *)
(*    detectMotionArtifacts returns for the current motion buffer is the   *)
(*    variable hasMotion, chosen anew whenever that buffer changes.        *)
(*  - BPM values are exact rationals, held as integers in units of         *)
(*    1/Scale BPM.                                                         *)
(*  - Date.now() is the variable now, in milliseconds; it never decreases. *)
(***************************************************************************)
EXTENDS Integers, Sequences, FiniteSets

VARIABLES
    now,                  \* Date.now()
    isDetecting,          \* HeartRateDetector.isDetecting
    detectionInterval,    \* HeartRateDetector.detectionInterval (0: null)
    timers,               \* the interval timers that are active
    faceApi,              \* HeartRateDetector.faceApi
    faceDetected,         \* HeartRateDetector.faceDetected
    roiRegions,           \* HeartRateDetector.roiRegions / roiRegion
    frameCount,           \* HeartRateDetector.frameCount
    chartData,            \* HeartRateDetector.chartData
    heartRateHistory,     \* HeartRateDetector.heartRateHistory
    calibrationStartTime, \* HeartRateDetector.calibrationStartTime
    isCalibrating,        \* HeartRateDetector.isCalibrating
    display,              \* the text of the heartRate element
    status,               \* the text of the status element
    signalBuffer,         \* SignalProcessor.signalBuffer
    motionRobustBuffer,   \* SignalProcessor.motionRobustBuffer
    hasMotion,            \* detectMotionArtifacts() on the current buffer
    lowPassAlpha,         \* SignalProcessor.lowPassAlpha, in hundredths
    highPassAlpha,        \* SignalProcessor.highPassAlpha, in hundredths
    adaptiveThreshold,    \* SignalProcessor.adaptiveThreshold, in tenths
    addCount,             \* calls of addDataPoint since the last reset
    call,                 \* argument and result of a function applied alone
    lastCall,             \* the handler that ran last, and the branch it took
    bandPassRuns,         \* the coefficients bandPassFilter read in each
                          \* processing request of that handler, in order
    canvasLog,            \* that handler's operations on the canvas context,
                          \* in order
    suspended,            \* calls of processFrame waiting at their await
    isInitialized,        \* HeartRateApp.isInitialized
    domLoaded,            \* DOMContentLoaded has fired
    initsPending,         \* calls of HeartRateApp.init suspended at an await
    lastInit              \* what the last initialisation found

vars == <<now, isDetecting, detectionInterval, timers, faceApi,
          faceDetected, roiRegions, frameCount, chartData, heartRateHistory,
          calibrationStartTime, isCalibrating, display, signalBuffer,
          motionRobustBuffer, hasMotion, lowPassAlpha, highPassAlpha,
          adaptiveThreshold, addCount, call, lastCall, bandPassRuns, canvasLog,
          suspended, status,
          isInitialized, domLoaded, initsPending, lastInit>>

\* the program's own state
programVars == <<now, isDetecting, detectionInterval, timers, faceApi,
                 faceDetected, roiRegions, frameCount, chartData,
                 heartRateHistory, calibrationStartTime, isCalibrating, display,
                 signalBuffer, motionRobustBuffer, hasMotion, lowPassAlpha,
                 highPassAlpha, adaptiveThreshold, status>>

detectorVars == <<isDetecting, detectionInterval, timers, faceApi,
                  faceDetected, roiRegions, frameCount, chartData,
                  heartRateHistory, calibrationStartTime, isCalibrating,
                  display, status>>

appVars == <<isInitialized, domLoaded, initsPending, lastInit>>

processorVars == <<signalBuffer, motionRobustBuffer, hasMotion, lowPassAlpha,
                   highPassAlpha, adaptiveThreshold, addCount>>

----------------------------------------------------------------------------
(* Program constants *)

Null == -1

SampleRate == 30
BufferSeconds == 15
bufferSize == SampleRate * BufferSeconds
motionDetectionWindow == 15
motionBufferSize == motionDetectionWindow * SampleRate
maxChartPoints == 150
calibrationPeriod == 15000
displayDelay == 5000
timeWindow == 2000
MaxDelayedDiff == 2000
MaxStdDev == 15
MinProcessLength == 30
MinEstimateLength == 90
fftSize == 512

(* Bounds of the model *)

MaxTime == 20000
MaxFrames == 93
MaxSkips == 1
MaxSamples == 452
MaxInits == 2
MaxFFTSize == 128
MaxSuspended == 1

TimeSteps == {5000, 7000}
PeakInputs == {0, 17, 26}

----------------------------------------------------------------------------
(* Arithmetic helpers *)

Abs(x) == IF x < 0 THEN -x ELSE x

RECURSIVE SumValues(_)
SumValues(s) == IF s = <<>> THEN 0 ELSE Head(s).value + SumValues(Tail(s))

RECURSIVE SumSquares(_)
SumSquares(s) ==
    IF s = <<>> THEN 0 ELSE Head(s).value * Head(s).value + SumSquares(Tail(s))

RECURSIVE MinTimeDiff(_, _)
MinTimeDiff(s, targetTime) ==
    \* the smallest |timestamp - targetTime| of the records; Null when none
    IF s = <<>> THEN Null
    ELSE LET d == Abs(Head(s).timestamp - targetTime)
             rest == MinTimeDiff(Tail(s), targetTime)
         IN IF rest = Null \/ d <= rest THEN d ELSE rest

----------------------------------------------------------------------------
(* SignalProcessor *)

\* PushBounded evicting one sample too early
PushBoundedOffByOne(buffer, value, capacity) ==
    LET pushed == Append(buffer, value)
    IN IF Len(pushed) >= capacity THEN Tail(pushed) ELSE pushed

\* PushBounded evicting the newest sample instead of the oldest
PushBoundedDropsNewest(buffer, value, capacity) ==
    LET pushed == Append(buffer, value)
    IN IF Len(pushed) > capacity THEN SubSeq(pushed, 1, capacity) ELSE pushed

\* push, then shift while longer than the capacity
PushBounded(buffer, value, capacity) ==
    LET pushed == Append(buffer, value)
    IN IF Len(pushed) > capacity THEN Tail(pushed) ELSE pushed

\* what detectMotionArtifacts may return for the motion buffer `after`, which
\* was `before` one addDataPoint earlier: it reads whole windows of sampleRate
\* samples from the front, and needs two of them
MotionOutcomes(before, after, motionBefore) ==
    IF Len(after) < motionDetectionWindow \/ Len(after) < 2 * SampleRate
    THEN {FALSE}
    ELSE IF Len(after) % SampleRate = 0 \/ Len(before) = Len(after)
         THEN BOOLEAN
         ELSE {motionBefore}

\* the coefficients adaptiveSignalProcessing leaves, in hundredths
AdaptiveLowPass(motion) == IF motion THEN 10 ELSE 15
AdaptiveHighPass(motion) == IF motion THEN 99 ELSE 98

\* length of the array getProcessedSignal returns; Null for null
getProcessedSignal(length) ==
    IF length < MinProcessLength THEN Null ELSE length

\* the bins findRobustPeakFrequency can return as the peak; 0 is "no peak"
minIndex == (7 * fftSize) \div (10 * SampleRate)
maxIndex == (35 * fftSize) \div (10 * SampleRate)
PeakIndices == {0} \cup {i \in (minIndex + 1)..(maxIndex - 2) : 2 * i < fftSize}

\* BPM values are held in units of 1/Scale, which makes bpm / 2 exact
Scale == 2 * fftSize
Round(x) == (2 * x + Scale) \div (2 * Scale)

\* TooShort without the 3 s minimum
TooShortOneSecond(signal) == signal = Null

\* calculateHeartRate's test of the processed signal (null, or under 3 s)
TooShort(signal) == signal = Null \/ signal < MinEstimateLength

\* calculateHeartRate without the two range corrections
calculateHeartRateNoRescue(length, peakIndex) ==
    LET signal == getProcessedSignal(length)
        bpm0 == peakIndex * SampleRate * 60 * 2
    IN IF TooShort(signal) THEN Null
       ELSE IF bpm0 >= 40 * Scale /\ bpm0 <= 220 * Scale THEN Round(bpm0)
       ELSE Null

\* SignalProcessor.calculateHeartRate on a buffer of `length` samples whose
\* spectrum has its selected peak in bin peakIndex
calculateHeartRate(length, peakIndex) ==
    LET signal == getProcessedSignal(length)
        bpm0 == peakIndex * SampleRate * 60 * 2
        low == 2 * bpm0
        bpm1 == IF bpm0 < 50 * Scale /\ bpm0 >= 25 * Scale
                   /\ low >= 50 * Scale /\ low <= 200 * Scale
                THEN low ELSE bpm0
        high == bpm1 \div 2
        bpm2 == IF bpm1 > 150 * Scale /\ bpm1 <= 400 * Scale
                   /\ high >= 50 * Scale /\ high <= 150 * Scale
                THEN high ELSE bpm1
    IN IF TooShort(signal) THEN Null
       ELSE IF bpm2 >= 40 * Scale /\ bpm2 <= 220 * Scale THEN Round(bpm2)
       ELSE Null

----------------------------------------------------------------------------
(* HeartRateDetector: the display smoother *)

InWindow(record, targetTime) == Abs(record.timestamp - targetTime) < timeWindow

\* Unstable comparing the variance, not the standard deviation, with 15
UnstableVariance(n, total, squares) ==
    n * squares - total * total > MaxStdDev * n * n

\* getStableHeartRate's test stdDev > 15 on n values with the given sum and
\* sum of squares: the variance is (n * squares - total^2) / n^2
Unstable(n, total, squares) ==
    n * squares - total * total > MaxStdDev * MaxStdDev * n * n

\* Math.round(total / n)
RoundedMean(n, total) == (2 * total + n) \div (2 * n)

getStableHeartRate(history, targetTime) ==
    LET relevantRecords == SelectSeq(history, LAMBDA r : InWindow(r, targetTime))
        n == Len(relevantRecords)
        total == SumValues(relevantRecords)
        squares == SumSquares(relevantRecords)
    IN IF n = 0 THEN Null
       ELSE IF Unstable(n, total, squares) THEN Null
       ELSE RoundedMean(n, total)

getDelayedHeartRate(history, currentTime) ==
    LET targetTime == currentTime - displayDelay
        minTimeDiff == MinTimeDiff(history, targetTime)
    IN IF minTimeDiff # Null /\ minTimeDiff < MaxDelayedDiff
       THEN getStableHeartRate(history, targetTime)
       ELSE Null

\* Fresh keeping a record of exactly the maximal age
FreshInclusive(record, currentTime) ==
    currentTime - record.timestamp <= calibrationPeriod + displayDelay

Fresh(record, currentTime) ==
    currentTime - record.timestamp < calibrationPeriod + displayDelay

\* the history updateHeartRate leaves
UpdatedHistory(history, heartRate, currentTime) ==
    IF heartRate # Null
    THEN SelectSeq(Append(history, [value |-> heartRate, timestamp |-> currentTime]),
                   LAMBDA r : Fresh(r, currentTime))
    ELSE history

\* isCalibrating after updateHeartRate's check of the calibration period
UpdatedCalibrating(calibrating, startTime, currentTime) ==
    IF calibrating /\ currentTime - startTime >= calibrationPeriod
    THEN FALSE ELSE calibrating

Calibrating == [kind |-> "calibrating", value |-> 0]
Unavailable == [kind |-> "unavailable", value |-> 0]
Bpm(n) == [kind |-> "bpm", value |-> n]

\* the text updateHeartRate writes to the heartRate element
UpdatedDisplay(calibrating, history, currentTime) ==
    IF calibrating THEN Calibrating
    ELSE LET delayedHeartRate == getDelayedHeartRate(history, currentTime)
         IN IF delayedHeartRate # Null THEN Bpm(delayedHeartRate)
            ELSE Unavailable

----------------------------------------------------------------------------
(* State after construction (HeartRateDetector and its SignalProcessor) *)

NoCall == [fn |-> "none", length |-> 0, peak |-> 0, result |-> Null]
NoInit == [done |-> FALSE, assets |-> FALSE, camera |-> FALSE, failed |-> FALSE]

\* every field but the record of the function applied alone
Constructed ==
    /\ now = 0
    /\ isDetecting = FALSE
    /\ detectionInterval = 0
    /\ timers = {}
    /\ faceApi = "null"
    /\ faceDetected = FALSE
    /\ roiRegions = "none"
    /\ frameCount = 0
    /\ chartData = <<>>
    /\ heartRateHistory = <<>>
    /\ calibrationStartTime = Null
    /\ isCalibrating = FALSE
    /\ display = [kind |-> "initial", value |-> 0]
    /\ signalBuffer = <<>>
    /\ motionRobustBuffer = <<>>
    /\ hasMotion = FALSE
    /\ lowPassAlpha = 30
    /\ highPassAlpha = 95
    /\ adaptiveThreshold = 3
    /\ addCount = 0
    /\ lastCall = "other"
    /\ bandPassRuns = <<>>
    /\ canvasLog = <<>>
    /\ suspended = 0
    /\ status = "initial"
    /\ isInitialized = FALSE
    /\ domLoaded = FALSE
    /\ initsPending = 0
    /\ lastInit = NoInit

Init == Constructed /\ call = NoCall

----------------------------------------------------------------------------
(* SignalProcessor operations *)

\* reset leaving the motion buffer as it is
resetKeepsMotionBuffer ==
    /\ signalBuffer' = <<>>
    /\ UNCHANGED <<motionRobustBuffer, hasMotion>>
    /\ adaptiveThreshold' = 7
    /\ lowPassAlpha' = 15
    /\ highPassAlpha' = 98
    /\ addCount' = 0

\* SignalProcessor.reset
reset ==
    /\ signalBuffer' = <<>>
    /\ motionRobustBuffer' = <<>>
    /\ hasMotion' = FALSE
    /\ adaptiveThreshold' = 7
    /\ lowPassAlpha' = 15
    /\ highPassAlpha' = 98
    /\ addCount' = 0

\* SignalProcessor.addDataPoint (with updateMotionRobustBuffer)
addDataPoint(value) ==
    /\ signalBuffer' = PushBounded(signalBuffer, value, bufferSize)
    /\ motionRobustBuffer' = PushBounded(motionRobustBuffer, value, motionBufferSize)
    /\ hasMotion' \in MotionOutcomes(motionRobustBuffer, motionRobustBuffer', hasMotion)
    /\ addCount' = addCount + 1

\* the coefficients after the getProcessedSignal calls of one frame, made on
\* a signal buffer of `length` samples under motion state `motion`
ProcessedAlphas(length, motion) ==
    IF getProcessedSignal(length) = Null
    THEN UNCHANGED <<lowPassAlpha, highPassAlpha>>
    ELSE /\ lowPassAlpha' = AdaptiveLowPass(motion)
         /\ highPassAlpha' = AdaptiveHighPass(motion)

\* what bandPassFilter read as (lowPassAlpha, highPassAlpha) in each of the
\* `requests` getProcessedSignal calls one handler makes: the filter runs
\* before adaptiveSignalProcessing assigns the coefficients, so the first
\* call reads the ones the handler found
BandPassRuns(requests, length, motion) ==
    IF getProcessedSignal(length) = Null THEN <<>>
    ELSE [i \in 1..requests |->
            IF i = 1 THEN <<lowPassAlpha, highPassAlpha>>
            ELSE <<AdaptiveLowPass(motion), AdaptiveHighPass(motion)>>]

----------------------------------------------------------------------------
(* HeartRateDetector operations *)

\* the wall clock advances
Advance(d) ==
    /\ now + d <= MaxTime
    /\ now' = now + d
    /\ lastCall' = "other"
    /\ bandPassRuns' = <<>>
    /\ canvasLog' = <<>>
    /\ suspended' = suspended
    /\ UNCHANGED <<detectorVars, processorVars, call>>
    /\ UNCHANGED appVars

\* resetCalibration without re-arming isCalibrating
resetCalibrationKeepsFlag ==
    /\ heartRateHistory' = <<>>
    /\ calibrationStartTime' = now
    /\ UNCHANGED isCalibrating

\* startDetection's reset of the calibration state
resetCalibration ==
    /\ heartRateHistory' = <<>>
    /\ calibrationStartTime' = now
    /\ isCalibrating' = TRUE

\* the handle setInterval returns: one no active timer has
setInterval == CHOOSE id \in 1..(Cardinality(timers) + 1) : id \notin timers

\* startDetection without its test of isDetecting
startDetectionUnguarded ==
    /\ lastCall' = "startDetection"
    /\ bandPassRuns' = <<>>
    /\ canvasLog' = <<>>
    /\ suspended' = suspended
    /\ UNCHANGED call
    /\ IF FALSE
       THEN UNCHANGED programVars /\ UNCHANGED addCount
       ELSE
         /\ isDetecting' = TRUE
         /\ reset
         /\ chartData' = <<>>
         /\ frameCount' = 0
         /\ resetCalibration
         /\ detectionInterval' = setInterval
         /\ timers' = timers \cup {setInterval}
         /\ status' = "detecting"
         /\ UNCHANGED <<now, faceApi, faceDetected, roiRegions, display>>

startDetection ==
    /\ lastCall' = "startDetection"
    /\ bandPassRuns' = <<>>
    /\ canvasLog' = <<>>
    /\ suspended' = suspended
    /\ UNCHANGED call
    /\ IF isDetecting
       THEN UNCHANGED programVars /\ UNCHANGED addCount
       ELSE
         /\ isDetecting' = TRUE
         /\ reset
         /\ chartData' = <<>>
         /\ frameCount' = 0
         /\ resetCalibration
         /\ detectionInterval' = setInterval
         /\ timers' = timers \cup {setInterval}
         /\ status' = "detecting"
         /\ UNCHANGED <<now, faceApi, faceDetected, roiRegions, display>>

\* stopDetection clearing the session's counters as well
stopDetectionResets ==
    /\ lastCall' = "other"
    /\ bandPassRuns' = <<>>
    /\ canvasLog' = <<>>
    /\ suspended' = suspended
    /\ UNCHANGED call
    /\ IF ~isDetecting
       THEN UNCHANGED programVars /\ UNCHANGED addCount
       ELSE
         /\ isDetecting' = FALSE
         /\ timers' = timers \ {detectionInterval}
         /\ frameCount' = 0
         /\ isCalibrating' = FALSE
         /\ calibrationStartTime' = Null
         /\ status' = "stopped"
         /\ UNCHANGED <<now, detectionInterval, faceApi, faceDetected,
                        roiRegions, chartData, heartRateHistory, display,
                        processorVars>>

stopDetection ==
    /\ lastCall' = "other"
    /\ bandPassRuns' = <<>>
    /\ canvasLog' = <<>>
    /\ suspended' = suspended
    /\ UNCHANGED call
    /\ IF ~isDetecting
       THEN UNCHANGED programVars /\ UNCHANGED addCount
       ELSE
         /\ isDetecting' = FALSE
         /\ timers' = timers \ {detectionInterval}
         /\ status' = "stopped"
         /\ UNCHANGED <<now, detectionInterval, faceApi, faceDetected,
                        roiRegions, frameCount, chartData, heartRateHistory,
                        calibrationStartTime, isCalibrating, display,
                        processorVars>>

\* detectFace: the detector's answer `detection` is read only when faceApi is
\* set; every other path, and a throw, ends in setDefaultROI
detectFace(detection) ==
    IF faceApi # "null" /\ detection = "face"
    THEN faceDetected' = TRUE /\ roiRegions' = "landmarks"
    ELSE IF faceApi # "null" /\ detection = "none"
    THEN faceDetected' = FALSE /\ roiRegions' = "none"
    ELSE faceDetected' = TRUE /\ roiRegions' = "default"

\* the overlay drawn inside detectFace: drawFaceBox strokes the face box,
\* drawROI (at the end of setROIFromLandmarks and of setDefaultROI) strokes
\* and labels each region
overlayWrites(detection) ==
    IF faceApi # "null" /\ detection = "face"
    THEN <<"drawFaceBox", "drawROI">>
    ELSE IF faceApi # "null" /\ detection = "none"
    THEN <<>>
    ELSE <<"drawROI">>

\* the canvas operations of one processFrame on a ready video: the video
\* frame is drawn, detectFace runs, and extractRGBFromROI reads the pixels of
\* the regions when there is a face and a region
CanvasLog(detection) ==
    <<"drawImage">> \o overlayWrites(detection)
        \o (IF faceDetected' /\ roiRegions' # "none"
            THEN <<"getImageData">> ELSE <<>>)

\* updateHeartRate, called with the estimate calculateHeartRate returned
updateHeartRate(heartRate) ==
    /\ heartRateHistory' = UpdatedHistory(heartRateHistory, heartRate, now)
    /\ isCalibrating' = UpdatedCalibrating(isCalibrating, calibrationStartTime, now)
    /\ display' = UpdatedDisplay(isCalibrating', heartRateHistory', now)

\* updateChart
updateChart(value) ==
    chartData' = PushBounded(chartData, value, maxChartPoints)

\* analyseFrame without the test for a null sample
analyseFrameNoNullCheck(rgbValue, peakIndex) ==
    IF faceDetected' /\ roiRegions' # "none"
    THEN /\ addDataPoint(rgbValue)
         /\ updateHeartRate(calculateHeartRate(Len(signalBuffer'), peakIndex))
         /\ updateChart(rgbValue)
    ELSE /\ UNCHANGED <<signalBuffer, motionRobustBuffer, hasMotion, addCount>>
         /\ UNCHANGED <<heartRateHistory, isCalibrating, display, chartData>>

\* processFrame after detectFace: sample the ROIs and, with a sample, feed
\* the signal chain, the estimator, the display and the chart
analyseFrame(rgbValue, peakIndex) ==
    IF faceDetected' /\ roiRegions' # "none" /\ rgbValue # Null
    THEN /\ addDataPoint(rgbValue)
         /\ updateHeartRate(calculateHeartRate(Len(signalBuffer'), peakIndex))
         /\ updateChart(rgbValue)
    ELSE /\ UNCHANGED <<signalBuffer, motionRobustBuffer, hasMotion, addCount>>
         /\ UNCHANGED <<heartRateHistory, isCalibrating, display, chartData>>

\* what the frame got: no sample, or a sample and then an estimate or none
FrameOutcome(rgbValue, peakIndex) ==
    IF ~(faceDetected' /\ roiRegions' # "none" /\ rgbValue # Null)
    THEN "frame:noSample"
    ELSE IF calculateHeartRate(Len(signalBuffer'), peakIndex) # Null
         THEN "frame:estimate"
         ELSE "frame:noEstimate"

\* One firing of the interval timer: processFrame, whole.  With faceApi null
\* detectFace has no suspension point of its own, so the continuation after
\* its await runs as a microtask before any other timer or click handler.
\*   videoReady: video.readyState is 4;  rgbValue: extractRGBFromROI's result
\*   (Null, or the sample);  peakIndex: the bin the estimator selects
processFrame(videoReady, detection, rgbValue, peakIndex) ==
    /\ detectionInterval \in timers
    /\ UNCHANGED call
    /\ IF ~videoReady
       THEN /\ lastCall' = "other"
            /\ bandPassRuns' = <<>>
            /\ canvasLog' = <<>>
            /\ suspended' = suspended
            /\ UNCHANGED programVars /\ UNCHANGED addCount
       ELSE /\ frameCount < MaxFrames
            /\ frameCount' = frameCount + 1
            /\ detectFace(detection)
            /\ analyseFrame(rgbValue, peakIndex)
            /\ lastCall' = FrameOutcome(rgbValue, peakIndex)
            /\ bandPassRuns' = BandPassRuns(IF lastCall' = "frame:noSample" THEN 1 ELSE 2,
                                             Len(signalBuffer'), hasMotion')
            /\ canvasLog' = CanvasLog(detection)
            /\ suspended' = suspended
            \* getProcessedSignal runs in calculateHeartRate and again in
            \* updateSignalQuality, on the same buffers
            /\ ProcessedAlphas(Len(signalBuffer'), hasMotion')
            /\ UNCHANGED <<now, isDetecting, detectionInterval, timers,
                           faceApi, calibrationStartTime,
                           adaptiveThreshold, status>>

Detections == IF faceApi = "null" THEN {"unused"} ELSE {"face", "none", "throw"}

\* the estimator reads a spectrum only from 90 samples on
PeakChoices == IF Len(signalBuffer) + 1 < MinEstimateLength THEN {0} ELSE PeakInputs

\* extractRGBFromROI returns the sample, or null when no ROI has a valid pixel
RgbValues == {addCount + 1} \cup (IF frameCount - addCount < MaxSkips THEN {Null} ELSE {})

Tick ==
    /\ \E videoReady \in BOOLEAN, detection \in Detections,
          rgbValue \in RgbValues, peakIndex \in PeakChoices :
           processFrame(videoReady, detection, rgbValue, peakIndex)
    /\ UNCHANGED appVars

Clock == \E d \in TimeSteps : Advance(d)

\* the detector's methods called directly
StartDetection == startDetection /\ UNCHANGED appVars
StopDetection == stopDetection /\ UNCHANGED appVars

Next ==
    \/ Clock
    \/ StartDetection
    \/ StopDetection
    \/ Tick

Spec == Init /\ [][Next]_vars

----------------------------------------------------------------------------
(* processFrame in its two parts.  The timer callback runs processFrame up  *)
(* to `await this.detectFace()`; detectFace, which with faceApi null has no *)
(* await of its own, has run to its end by then.  The rest of processFrame  *)
(* is a promise continuation: a microtask.  The event loop runs every       *)
(* pending microtask before it takes the next task (a timer callback, a     *)
(* click handler), and the clock is read only by tasks.                     *)

\* a scheduler taking the next task with a continuation still pending
MicrotasksIgnored == TRUE

\* the event loop may take a task: no continuation of processFrame is pending
MicrotasksDrained == suspended = 0

\* processFrame from its call by the timer to its await
beginFrame(videoReady, detection) ==
    /\ detectionInterval \in timers
    /\ UNCHANGED call
    /\ bandPassRuns' = <<>>
    /\ IF ~videoReady
       THEN /\ lastCall' = "other"
            /\ canvasLog' = <<>>
            /\ suspended' = suspended
            /\ UNCHANGED programVars /\ UNCHANGED addCount
       ELSE /\ frameCount < MaxFrames
            /\ suspended < MaxSuspended
            /\ suspended' = suspended + 1
            /\ frameCount' = frameCount + 1
            /\ detectFace(detection)
            /\ lastCall' = "frame:await"
            /\ canvasLog' = <<"drawImage">> \o overlayWrites(detection)
            /\ UNCHANGED <<now, isDetecting, detectionInterval, timers,
                           faceApi, chartData, heartRateHistory,
                           calibrationStartTime, isCalibrating, display,
                           status, processorVars>>

\* processFrame from its await to its end
resumeFrame(rgbValue, peakIndex) ==
    /\ suspended > 0
    /\ suspended' = suspended - 1
    /\ UNCHANGED call
    /\ UNCHANGED <<faceDetected, roiRegions>>
    /\ analyseFrame(rgbValue, peakIndex)
    /\ lastCall' = FrameOutcome(rgbValue, peakIndex)
    /\ ProcessedAlphas(Len(signalBuffer'), hasMotion')
    /\ bandPassRuns' = BandPassRuns(IF lastCall' = "frame:noSample" THEN 1 ELSE 2,
                                    Len(signalBuffer'), hasMotion')
    /\ canvasLog' = IF faceDetected /\ roiRegions # "none"
                    THEN <<"getImageData">> ELSE <<>>
    /\ UNCHANGED <<now, isDetecting, detectionInterval, timers, faceApi,
                   frameCount, calibrationStartTime, adaptiveThreshold, status>>

\* extractRGBFromROI's result in a frame that frameCount already counts
ResumedRgbValues ==
    {addCount + 1} \cup (IF frameCount - 1 - addCount < MaxSkips THEN {Null} ELSE {})

BeginFrame ==
    /\ MicrotasksDrained
    /\ \E videoReady \in BOOLEAN, detection \in Detections :
          beginFrame(videoReady, detection)
    /\ UNCHANGED appVars

ResumeFrame ==
    /\ \E rgbValue \in ResumedRgbValues, peakIndex \in PeakChoices :
          resumeFrame(rgbValue, peakIndex)
    /\ UNCHANGED appVars

ClockTask == MicrotasksDrained /\ Clock
StartTask == MicrotasksDrained /\ StartDetection
StopTask == MicrotasksDrained /\ StopDetection

NextAwait ==
    \/ ClockTask
    \/ StartTask
    \/ StopTask
    \/ BeginFrame
    \/ ResumeFrame

SpecAwait == Init /\ [][NextAwait]_vars

----------------------------------------------------------------------------
(* The page: HeartRateApp, whose handlers drive the detector.  An          *)
(* initialisation is suspended at the awaits of loadFaceApi and            *)
(* setupCamera; what it changes, it changes when it resumes for the last   *)
(* time, and other handlers run in between.                                *)

\* HeartRateApp.init up to its first await
beginInit ==
    /\ initsPending < MaxInits
    /\ initsPending' = initsPending + 1

DOMContentLoaded ==
    /\ ~domLoaded
    /\ domLoaded' = TRUE
    /\ beginInit
    /\ lastCall' = "other"
    /\ bandPassRuns' = <<>>
    /\ canvasLog' = <<>>
    /\ suspended' = suspended
    /\ UNCHANGED <<now, detectorVars, processorVars, call, isInitialized, lastInit>>

\* initDone taking a failed setupCamera for a success
initDoneIgnoresCamera(assetsLoaded, cameraOpened) ==
    /\ initsPending > 0
    /\ initsPending' = initsPending - 1
    /\ faceApi' = "null"
    /\ isInitialized' = TRUE
    /\ status' = "ready"
    /\ lastInit' = [done |-> TRUE, assets |-> assetsLoaded, camera |-> cameraOpened,
                    failed |-> lastInit.failed \/ ~cameraOpened]
    /\ lastCall' = "app:init"
    /\ bandPassRuns' = <<>>
    /\ canvasLog' = <<>>
    /\ suspended' = suspended
    /\ UNCHANGED <<now, isDetecting, detectionInterval, timers, faceDetected,
                   roiRegions, frameCount, chartData, heartRateHistory,
                   calibrationStartTime, isCalibrating, display, processorVars,
                   call, domLoaded>>

\* initDone with loadFaceApi setting faceApi when the assets were loaded
initDoneSetsFaceApi(assetsLoaded, cameraOpened) ==
    /\ initsPending > 0
    /\ initsPending' = initsPending - 1
    /\ faceApi' = IF assetsLoaded THEN "loaded" ELSE "null"
    /\ isInitialized' = IF cameraOpened THEN TRUE ELSE isInitialized
    /\ status' = IF cameraOpened THEN "ready" ELSE "initFailed"
    /\ lastInit' = [done |-> TRUE, assets |-> assetsLoaded, camera |-> cameraOpened,
                    failed |-> lastInit.failed \/ ~cameraOpened]
    /\ lastCall' = "app:init"
    /\ bandPassRuns' = <<>>
    /\ canvasLog' = <<>>
    /\ suspended' = suspended
    /\ UNCHANGED <<now, isDetecting, detectionInterval, timers, faceDetected,
                   roiRegions, frameCount, chartData, heartRateHistory,
                   calibrationStartTime, isCalibrating, display, processorVars,
                   call, domLoaded>>

\* the rest of HeartRateApp.init, from detector.init's awaits on: loadFaceApi
\* swallows a failure of the assets and leaves faceApi null either way;
\* setupCamera reports a failure and rethrows it, which init catches
initDone(assetsLoaded, cameraOpened) ==
    /\ initsPending > 0
    /\ initsPending' = initsPending - 1
    /\ faceApi' = "null"
    /\ isInitialized' = IF cameraOpened THEN TRUE ELSE isInitialized
    /\ status' = IF cameraOpened THEN "ready" ELSE "initFailed"
    /\ lastInit' = [done |-> TRUE, assets |-> assetsLoaded, camera |-> cameraOpened,
                    failed |-> lastInit.failed \/ ~cameraOpened]
    /\ lastCall' = "app:init"
    /\ bandPassRuns' = <<>>
    /\ canvasLog' = <<>>
    /\ suspended' = suspended
    /\ UNCHANGED <<now, isDetecting, detectionInterval, timers, faceDetected,
                   roiRegions, frameCount, chartData, heartRateHistory,
                   calibrationStartTime, isCalibrating, display, processorVars,
                   call, domLoaded>>

\* HeartRateApp.startDetection, the click handler of the start button
appStartDetection ==
    IF ~isInitialized
       THEN /\ status' = "retrying"
            /\ beginInit
            /\ lastCall' = "app:retry"
            /\ bandPassRuns' = <<>>
            /\ canvasLog' = <<>>
            /\ suspended' = suspended
            /\ UNCHANGED <<now, isDetecting, detectionInterval, timers, faceApi,
                           faceDetected, roiRegions, frameCount, chartData,
                           heartRateHistory, calibrationStartTime, isCalibrating,
                           display, processorVars, call, isInitialized,
                           domLoaded, lastInit>>
       ELSE /\ startDetection
            /\ UNCHANGED <<isInitialized, domLoaded, initsPending, lastInit>>

\* HeartRateApp.stopDetection, the click handler of the stop button
appStopDetection ==
    /\ stopDetection
    /\ UNCHANGED <<isInitialized, domLoaded, initsPending, lastInit>>

InitDone ==
    \E assetsLoaded \in BOOLEAN, cameraOpened \in BOOLEAN :
        initDone(assetsLoaded, cameraOpened)

NextApp ==
    \/ DOMContentLoaded
    \/ InitDone
    \/ appStartDetection
    \/ appStopDetection
    \/ Tick

SpecApp == Init /\ [][NextApp]_vars

----------------------------------------------------------------------------
(* The SignalProcessor alone: its buffer operations called in any order *)

AddSample ==
    /\ addCount < MaxSamples
    /\ addDataPoint(addCount + 1)
    /\ lastCall' = "addDataPoint"
    /\ bandPassRuns' = <<>>
    /\ canvasLog' = <<>>
    /\ suspended' = suspended
    /\ UNCHANGED <<now, detectorVars, lowPassAlpha, highPassAlpha,
                   adaptiveThreshold, call>>
    /\ UNCHANGED appVars

ResetProcessor ==
    /\ reset
    /\ lastCall' = "reset"
    /\ bandPassRuns' = <<>>
    /\ canvasLog' = <<>>
    /\ suspended' = suspended
    /\ UNCHANGED <<now, detectorVars, call>>
    /\ UNCHANGED appVars

NextSP ==
    \/ AddSample
    \/ ResetProcessor

SpecSP == Init /\ [][NextSP]_vars

----------------------------------------------------------------------------
(* The estimator alone: calculateHeartRate applied to a buffer of each      *)
(* length of EstimateLengths, for every bin the peak search can return      *)

EstimateLengths == {0, 29, 30, 60, 89, 90, 91, 450}

Min(a, b) == IF a < b THEN a ELSE b

\* a buffer of the given capacity after the samples 1..count were added
LastSamples(count, capacity) ==
    [i \in 1..Min(count, capacity) |-> count - Min(count, capacity) + i]

\* a session that has taken `length` samples, one per frame
InSession(length) ==
        /\ now = 0
        /\ isDetecting = TRUE
        /\ detectionInterval = 1
        /\ timers = {1}
        /\ faceApi = "null"
        /\ faceDetected = (length > 0)
        /\ roiRegions = IF length > 0 THEN "default" ELSE "none"
        /\ frameCount = length
        /\ chartData = LastSamples(length, maxChartPoints)
        /\ heartRateHistory = <<>>
        /\ calibrationStartTime = 0
        /\ isCalibrating = TRUE
        /\ display = IF length > 0 THEN Calibrating
                     ELSE [kind |-> "initial", value |-> 0]
        /\ signalBuffer = LastSamples(length, bufferSize)
        /\ motionRobustBuffer = LastSamples(length, motionBufferSize)
        /\ hasMotion \in (IF length < 2 * SampleRate THEN {FALSE} ELSE BOOLEAN)
        /\ lowPassAlpha = IF length < MinProcessLength THEN 15
                          ELSE AdaptiveLowPass(hasMotion)
        /\ highPassAlpha = IF length < MinProcessLength THEN 98
                           ELSE AdaptiveHighPass(hasMotion)
        /\ adaptiveThreshold = 7
        /\ addCount = length
        /\ lastCall = "other"
        /\ bandPassRuns = <<>>
        /\ canvasLog = <<>>
        /\ suspended = 0
        /\ status = "detecting"
        /\ isInitialized = FALSE
        /\ domLoaded = FALSE
        /\ initsPending = 0
        /\ lastInit = NoInit

InitEstimate == \E length \in EstimateLengths : InSession(length) /\ call = NoCall
    
CalculateHeartRateCall(peakIndex) ==
    /\ call' = [fn |-> "calculateHeartRate",
                length |-> Len(signalBuffer),
                peak |-> peakIndex,
                result |-> calculateHeartRate(Len(signalBuffer), peakIndex)]
    /\ ProcessedAlphas(Len(signalBuffer), hasMotion)
    /\ lastCall' = "calculateHeartRate"
    /\ bandPassRuns' = BandPassRuns(1, Len(signalBuffer), hasMotion)
    /\ canvasLog' = <<>>
    /\ suspended' = suspended
    /\ UNCHANGED <<now, detectorVars, signalBuffer, motionRobustBuffer,
                   hasMotion, adaptiveThreshold, addCount>>
    /\ UNCHANGED appVars

NextEstimate == \E peakIndex \in PeakIndices : CalculateHeartRateCall(peakIndex)

SpecEstimate == InitEstimate /\ [][NextEstimate]_vars

----------------------------------------------------------------------------
(* The estimator in a session, with every peak the search can select: the  *)
(* last frames before MaxFrames of a session that has sampled on every     *)
(* frame, on a ready video, the estimator reading any bin of PeakIndices    *)

\* two frames are left: one stores an estimate, the next displays it
InitRange == InSession(MaxFrames - 2) /\ call = NoCall

TickRange ==
    /\ \E detection \in Detections, rgbValue \in RgbValues,
          peakIndex \in PeakIndices :
           processFrame(TRUE, detection, rgbValue, peakIndex)
    /\ UNCHANGED appVars

NextRange == Clock \/ TickRange

SpecRange == InitRange /\ [][NextRange]_vars

----------------------------------------------------------------------------
(* The quality label alone: getSignalQuality applied to a buffer of each    *)
(* length of EstimateLengths.  qualityScore is the weighted sum the code    *)
(* computes from the processed signal, in hundredths; it is NaN when a      *)
(* component divides 0 by 0, and then every comparison with it is false.    *)

QualityScores ==
    {[nan |-> TRUE, value |-> 0]}
    \cup {[nan |-> FALSE, value |-> v] : v \in {0, 30, 31, 50, 51, 70, 71, 100}}

\* qualityScore > bound / 100
ScoreAbove100(qualityScore, bound) == ~qualityScore.nan /\ qualityScore.value > bound

\* getSignalQuality asking for 3 s of samples
getSignalQualityThreeSeconds(length, qualityScore) ==
    IF length < MinEstimateLength THEN "insufficient"
    ELSE IF getProcessedSignal(length) = Null THEN "poor"
    ELSE IF ScoreAbove100(qualityScore, 70) THEN "excellent"
    ELSE IF ScoreAbove100(qualityScore, 50) THEN "good"
    ELSE IF ScoreAbove100(qualityScore, 30) THEN "fair"
    ELSE "poor"

\* SignalProcessor.getSignalQuality on a buffer of `length` samples
getSignalQuality(length, qualityScore) ==
    IF length < MinProcessLength THEN "insufficient"
    ELSE IF getProcessedSignal(length) = Null THEN "poor"
    ELSE IF ScoreAbove100(qualityScore, 70) THEN "excellent"
    ELSE IF ScoreAbove100(qualityScore, 50) THEN "good"
    ELSE IF ScoreAbove100(qualityScore, 30) THEN "fair"
    ELSE "poor"

\* getSignalQuality called alone; the request it makes of getProcessedSignal
\* (none under 30 samples) is recorded with what it returned
GetSignalQualityCall(qualityScore) ==
    /\ call' = [fn |-> "getSignalQuality",
                length |-> Len(signalBuffer),
                score |-> qualityScore,
                signal |-> getProcessedSignal(Len(signalBuffer)),
                result |-> getSignalQuality(Len(signalBuffer), qualityScore)]
    /\ ProcessedAlphas(Len(signalBuffer), hasMotion)
    /\ lastCall' = "getSignalQuality"
    /\ bandPassRuns' = BandPassRuns(1, Len(signalBuffer), hasMotion)
    /\ canvasLog' = <<>>
    /\ suspended' = suspended
    /\ UNCHANGED <<now, detectorVars, signalBuffer, motionRobustBuffer,
                   hasMotion, adaptiveThreshold, addCount>>
    /\ UNCHANGED appVars

NextQuality == \E qualityScore \in QualityScores : GetSignalQualityCall(qualityScore)

SpecQuality == InitEstimate /\ [][NextQuality]_vars

----------------------------------------------------------------------------
(* The FFT kernel alone: new FFT(size) for each size of FFTSizes *)

FFTSizes == 1..MaxFFTSize \cup {fftSize}

\* the number of passes of reverseBits' loop "for (i = 0; i < bits; i++)"
\* with bits = Math.log2(size): the least k with 2^k >= size
RECURSIVE LoopCount(_, _)
LoopCount(size, k) == IF 2 ^ k >= size THEN k ELSE LoopCount(size, k + 1)

\* FFT.reverseBits, after `passes` passes with `result` so far
RECURSIVE reverseBits(_, _, _)
reverseBits(num, passes, result) ==
    IF passes = 0 THEN result
    ELSE reverseBits(num \div 2, passes - 1, 2 * result + (num % 2))

\* the object the FFT constructor returns; it has no statement that throws
FFT(size) ==
    [fn |-> "FFT",
     size |-> size,
     thrown |-> FALSE,
     reverse |-> [i \in 0..(size - 1) |-> reverseBits(i, LoopCount(size, 0), 0)]]

NewFFT(size) ==
    /\ call' = FFT(size)
    /\ lastCall' = "FFT"
    /\ bandPassRuns' = <<>>
    /\ canvasLog' = <<>>
    /\ suspended' = suspended
    /\ UNCHANGED <<now, detectorVars, processorVars, appVars>>

NextFFT == \E size \in FFTSizes : NewFFT(size)

SpecFFT == Init /\ [][NextFFT]_vars

----------------------------------------------------------------------------
(* The peak search alone: findRobustPeakFrequency applied to a magnitude    *)
(* spectrum.  A spectrum is level everywhere except at a few bins, and is   *)
(* held as the function from those bins to their magnitudes; the frequency  *)
(* returned is held as its bin (0 for the frequency 0).  Comparisons are    *)
(* made in exact arithmetic.                                                *)

Floor == 10
SpikeBins == {11, 12, 17, 26, 33, 34, 35, 37, 52, 57, 58, 59}
Heights == {15, 20, 30, 650, 700, 701, 999, 1000}

\* no spike, one, two, and a best peak at bin 17 with company around bin 34
Spectra ==
    UNION {[S -> Heights] : S \in {T \in SUBSET SpikeBins : Cardinality(T) <= 2}}
    \cup {m \in [{17, 33, 35, 37} -> Heights] : m[17] = 1000}

\* magnitude[i]
Mag(magnitude, i) == IF i \in DOMAIN magnitude THEN magnitude[i] ELSE Floor

\* the sum of magnitude.slice(from, to)
RECURSIVE SumSlice(_, _, _)
SumSlice(magnitude, from, to) ==
    IF from >= to THEN 0
    ELSE Mag(magnitude, from) + SumSlice(magnitude, from + 1, to)

\* calculatePeakSharpness: the sum of the differences and their number
sharpnessWindow(peakIndex) ==
    LET start == IF peakIndex - 3 > 0 THEN peakIndex - 3 ELSE 0
        end == IF peakIndex + 4 < fftSize THEN peakIndex + 4 ELSE fftSize
    IN (start..(end - 1)) \ {peakIndex}

calculatePeakSharpness(magnitude, peakIndex) ==
    LET window == sharpnessWindow(peakIndex)
        count == Cardinality(window)
        low == CHOOSE i \in window : \A j \in window : i <= j
        high == CHOOSE i \in window : \A j \in window : j <= i
    IN [sumDiff |-> count * Mag(magnitude, peakIndex)
                    - (SumSlice(magnitude, low, high + 1) - Mag(magnitude, peakIndex)),
        count |-> count]

\* the sign of scoreB - scoreA as the sort's comparator computes it, with
\* score = value * (1 + sharpness): positive when b sorts before a
ScoreAbove(magnitude, b, a) ==
    LET sa == calculatePeakSharpness(magnitude, a)
        sb == calculatePeakSharpness(magnitude, b)
    IN Mag(magnitude, b) * (sb.count + sb.sumDiff) * sa.count
         > Mag(magnitude, a) * (sa.count + sa.sumDiff) * sb.count

\* the first element of the sorted peak list that is in `candidates`: the
\* sort is stable and the list was filled by rising bin
First(magnitude, candidates) ==
    CHOOSE p \in candidates :
        \A q \in candidates \ {p} :
            \/ ScoreAbove(magnitude, p, q)
            \/ (~ScoreAbove(magnitude, q, p) /\ p < q)

\* the bins the loop over the band pushes to peaks
localPeaks(magnitude) ==
    {i \in (minIndex + 1)..(maxIndex - 2) :
        /\ 2 * i < fftSize
        /\ Mag(magnitude, i) > Mag(magnitude, i - 1)
        /\ Mag(magnitude, i) > Mag(magnitude, i + 1)}

\* bestPeak.value < avgMagnitude * (1.5 + significanceThreshold)
NotSignificant(magnitude, bestPeak, threshold) ==
    Mag(magnitude, bestPeak) * 10 * (maxIndex - minIndex)
        < SumSlice(magnitude, minIndex, maxIndex) * (15 + threshold)

\* Math.abs(peak.frequency - bestPeak.frequency * 2) < 0.1
NearDouble(peak, bestPeak) == Abs(peak - 2 * bestPeak) * SampleRate * 10 < fftSize

\* Math.abs(peak.frequency - bestPeak.frequency / 2) < 0.1
NearHalf(peak, bestPeak) == Abs(2 * peak - bestPeak) * SampleRate * 10 < 2 * fftSize

\* StrongDouble accepting a peak of exactly 0.7 times the best
StrongDoubleInclusive(value, bestValue) == 10 * value >= 7 * bestValue

\* doubleFreqPeak.value > bestPeak.value * 0.7
StrongDouble(value, bestValue) == 10 * value > 7 * bestValue

\* StrongHalf accepting a peak of exactly half the best
StrongHalfInclusive(value, bestValue) == 2 * value >= bestValue

\* halfFreqPeak.value > bestPeak.value * 0.5
StrongHalf(value, bestValue) == 2 * value > bestValue

\* bestBPM > 120 && halfBPM >= 50 && halfBPM <= 120
HalfInRange(halfPeak, bestPeak) ==
    /\ bestPeak * SampleRate * 60 > 120 * fftSize
    /\ halfPeak * SampleRate * 60 >= 50 * fftSize
    /\ halfPeak * SampleRate * 60 <= 120 * fftSize

\* SignalProcessor.findRobustPeakFrequency with adaptiveThreshold = threshold
findRobustPeakFrequency(magnitude, threshold) ==
    LET peaks == localPeaks(magnitude)
    IN IF peaks = {} THEN 0
       ELSE
         LET bestPeak == First(magnitude, peaks)
             doubles == {p \in peaks : NearDouble(p, bestPeak)}
             halves == {p \in peaks : NearHalf(p, bestPeak)}
         IN IF NotSignificant(magnitude, bestPeak, threshold) THEN 0
            ELSE IF /\ doubles # {}
                    /\ StrongDouble(Mag(magnitude, First(magnitude, doubles)),
                                    Mag(magnitude, bestPeak))
                 THEN First(magnitude, doubles)
            ELSE IF /\ halves # {}
                    /\ StrongHalf(Mag(magnitude, First(magnitude, halves)),
                                  Mag(magnitude, bestPeak))
                    /\ HalfInRange(First(magnitude, halves), bestPeak)
                 THEN First(magnitude, halves)
            ELSE bestPeak

\* a processor as constructed, or one in a session with 3 s of samples, and
\* the spectrum the search is given
InitPeak ==
    /\ Constructed \/ InSession(MinEstimateLength)
    /\ \E magnitude \in Spectra :
          call = [fn |-> "magnitude", magnitude |-> magnitude]

FindPeak ==
    /\ call.fn = "magnitude"
    /\ call' = [fn |-> "findRobustPeakFrequency",
                magnitude |-> call.magnitude,
                threshold |-> adaptiveThreshold,
                peaks |-> localPeaks(call.magnitude),
                result |-> findRobustPeakFrequency(call.magnitude, adaptiveThreshold)]
    /\ lastCall' = "findRobustPeakFrequency"
    /\ bandPassRuns' = <<>>
    /\ canvasLog' = <<>>
    /\ suspended' = suspended
    /\ UNCHANGED <<now, detectorVars, processorVars, appVars>>

NextPeak == FindPeak

SpecPeak == InitPeak /\ [][NextPeak]_vars

----------------------------------------------------------------------------
(* Properties *)

SampleFrames == {"frame:estimate", "frame:noEstimate"}
Frames == SampleFrames \cup {"frame:noSample"}

\* v is total / n rounded to the nearest integer, halves up
IsRounded(v, n, total) ==
    /\ 2 * total >= (2 * v - 1) * n
    /\ 2 * total < (2 * v + 1) * n

\* the records at most / less than 2000 ms from t
ClosedWindow(t) ==
    SelectSeq(heartRateHistory,
              LAMBDA r : r.timestamp >= t - 2000 /\ r.timestamp <= t + 2000)
OpenWindow(t) ==
    SelectSeq(heartRateHistory,
              LAMBDA r : r.timestamp > t - 2000 /\ r.timestamp < t + 2000)

\* every value of w is within 15 of the mean of w
AllNearMean(w) ==
    \A i \in 1..Len(w) : Abs(Len(w) * w[i].value - SumValues(w)) <= 15 * Len(w)

\* the population standard deviation of the values of w is at most 15
SmallDeviation(w) ==
    Len(w) * SumSquares(w) - SumValues(w) * SumValues(w) <= 225 * Len(w) * Len(w)

\* C1. Calibration gate: a call of updateHeartRate (a frame with a sample)
\* made less than 15000 ms after the session's calibrationStart leaves the
\* calibrating text in the display, never a BPM, whatever the history holds.
CalibrationGate ==
    (lastCall \in SampleFrames /\ now < calibrationStartTime + calibrationPeriod)
        => display.kind = "calibrating"

\* an estimate arrived during calibration, with records in the history, and
\* the display says calibrating
CalibrationGateWitness ==
    /\ lastCall = "frame:estimate"
    /\ now < calibrationStartTime + calibrationPeriod
    /\ now > calibrationStartTime
    /\ Len(heartRateHistory) >= 2
    /\ display = Calibrating

RingOrdering ==
    LET m == Min(addCount, bufferSize)
    IN /\ Len(signalBuffer) = m
       /\ \A i \in 1..Len(signalBuffer) : signalBuffer[i] = addCount - m + i
       /\ \A i \in 1..(Len(signalBuffer) - 1) :
            signalBuffer[i] < signalBuffer[i + 1]

\* the buffer overflowed twice: samples 1 and 2 are gone, 3 is the oldest
RingOrderingWitness ==
    /\ addCount = bufferSize + 2
    /\ Head(signalBuffer) = 3
    /\ signalBuffer[Len(signalBuffer)] = addCount

\* C4. Skipped frame: a processFrame that got no sample (no ROI with a valid
\* pixel, or no face) leaves signalBuffer, the motion buffer, the history and
\* chartData as they were.
SkippedFrame ==
    [][(lastCall' = "frame:noSample" /\ frameCount' = frameCount + 1)
        => UNCHANGED <<signalBuffer, motionRobustBuffer, heartRateHistory,
                       chartData>>]_vars

\* a frame without a sample, in a session that has samples and estimates
SkippedFrameWitness ==
    /\ lastCall = "frame:noSample"
    /\ frameCount > addCount
    /\ Len(signalBuffer) >= MinEstimateLength
    /\ Len(chartData) >= MinEstimateLength
    /\ Len(heartRateHistory) > 0

\* C5. Estimator output: calculateHeartRate returns null or a BPM in 40..220;
\* null for fewer than 90 samples and when the peak search reports 0.
EstimatorOutput ==
    call.fn = "calculateHeartRate" =>
        /\ call.result = Null \/ (call.result >= 40 /\ call.result <= 220)
        /\ call.length < 90 => call.result = Null
        /\ call.peak = 0 => call.result = Null

\* an estimate from the lowest bin, doubled: 42.19 BPM becomes 84
EstimatorOutputWitness ==
    /\ call.fn = "calculateHeartRate"
    /\ call.length = 90
    /\ call.peak = minIndex + 1
    /\ call.result = 84

\* C6 as claimed. Delayed stability: after calibration the display is
\* round(mean) of the records with timestamp in [t*-2000, t*+2000] when each
\* of them is within 15 of their mean, and "unavailable" otherwise.
DelayedStabilityAsClaimed ==
    (lastCall \in SampleFrames /\ ~isCalibrating) =>
        LET w == ClosedWindow(now - displayDelay)
        IN IF Len(w) > 0 /\ AllNearMean(w)
           THEN /\ display.kind = "bpm"
                /\ IsRounded(display.value, Len(w), SumValues(w))
           ELSE display = Unavailable

\* C6 as amended. The display is round(mean) of the records less than
\* 2000 ms from t* when there is such a record and their population standard
\* deviation is at most 15, and "unavailable" otherwise.
DelayedStability ==
    (lastCall \in SampleFrames /\ ~isCalibrating) =>
        LET w == OpenWindow(now - displayDelay)
        IN IF Len(w) > 0 /\ SmallDeviation(w)
           THEN /\ display.kind = "bpm"
                /\ IsRounded(display.value, Len(w), SumValues(w))
           ELSE display = Unavailable

\* a BPM is displayed although a record of the window is more than 15 from
\* the window's mean
DelayedStabilityWitness ==
    /\ lastCall \in SampleFrames
    /\ ~isCalibrating
    /\ display.kind = "bpm"
    /\ ~AllNearMean(OpenWindow(now - displayDelay))

\* C7. Session start: a startDetection while not detecting leaves
\* calibrationStartTime = now, isCalibrating, frameCount = 0 and an empty
\* history, signal buffer, motion buffer and chart; one while detecting
\* changes nothing.
SessionStart ==
    [][lastCall' = "startDetection" =>
        IF isDetecting
        THEN UNCHANGED programVars
        ELSE /\ isDetecting'
             /\ now' = now
             /\ calibrationStartTime' = now
             /\ isCalibrating'
             /\ frameCount' = 0
             /\ heartRateHistory' = <<>>
             /\ signalBuffer' = <<>>
             /\ motionRobustBuffer' = <<>>
             /\ chartData' = <<>>]_vars

\* a session just started after an earlier one that had reached the display
SessionStartWitness ==
    /\ lastCall = "startDetection"
    /\ isDetecting
    /\ calibrationStartTime = now
    /\ frameCount = 0
    /\ signalBuffer = <<>>
    /\ heartRateHistory = <<>>
    /\ display.kind = "bpm"

\* C8 as claimed. stopDetection on a running session puts isDetecting,
\* isCalibrating, calibrationStart and frameCount back at their reset values.
StopResetsSession ==
    [][(isDetecting /\ ~isDetecting') =>
        /\ ~isCalibrating'
        /\ calibrationStartTime' = Null
        /\ frameCount' = 0]_vars

\* C8 as amended. stopDetection on a running session clears isDetecting and
\* cancels the timer; isCalibrating, calibrationStartTime and frameCount keep
\* the values the session left.
StopKeepsSession ==
    [][(isDetecting /\ ~isDetecting') =>
        /\ timers' = {}
        /\ UNCHANGED <<isCalibrating, calibrationStartTime, frameCount>>]_vars

\* a stopped session whose calibration flag, start time and frame count stay
StopKeepsSessionWitness ==
    /\ ~isDetecting
    /\ timers = {}
    /\ isCalibrating
    /\ calibrationStartTime # Null
    /\ frameCount > 0

\* C9 as claimed. History bound: after every frame of a running session every
\* record is younger than calibrationPeriod + displayDelay.
HistoryBoundEveryFrame ==
    lastCall \in Frames =>
        \A i \in 1..Len(heartRateHistory) :
            now - heartRateHistory[i].timestamp < 20000

\* C9 as amended. After every frame on which the estimator returned an
\* estimate every record is younger than calibrationPeriod + displayDelay.
HistoryBound ==
    lastCall = "frame:estimate" =>
        \A i \in 1..Len(heartRateHistory) :
            now - heartRateHistory[i].timestamp < 20000

\* an estimate arrived 20000 ms into a session whose history holds a record
\* from 15000 ms before
HistoryBoundWitness ==
    /\ lastCall = "frame:estimate"
    /\ now - calibrationStartTime >= calibrationPeriod + displayDelay
    /\ Len(heartRateHistory) >= 2
    /\ now - Head(heartRateHistory).timestamp = calibrationPeriod

\* C10. End of calibration on every frame: a frame at or after
\* calibrationStart + calibrationPeriod leaves isCalibrating false and the
\* display at the delayed stable BPM, or unavailable, of that frame's time.
EndOfCalibrationEveryFrame ==
    (lastCall \in Frames /\ now - calibrationStartTime >= calibrationPeriod) =>
        /\ ~isCalibrating
        /\ display = UpdatedDisplay(FALSE, heartRateHistory, now)

\* C12 as claimed. Capability missing does not block a session: an
\* initialisation that found the camera unavailable or the face-detector
\* assets unreachable leaves an error in the status, and a start request
\* made after it, with no session running, starts a session.
CapabilityMissingAsClaimed ==
    [][/\ (lastCall' = "app:init" /\ ~(lastInit'.camera /\ lastInit'.assets))
            => status' = "initFailed"
       /\ (lastCall' \in {"startDetection", "app:retry"} /\ ~isDetecting
           /\ lastInit.done /\ ~(lastInit.camera /\ lastInit.assets))
            => isDetecting']_vars

\* C12 as amended. Unreachable assets are not reported and block nothing: an
\* initialisation that opened the camera sets isInitialized and the ready
\* status with or without them.  One that could not open the camera leaves
\* the error in the status and isInitialized as it was.  A start request
\* starts a session exactly when isInitialized is set, and begins another
\* initialisation otherwise; no session runs without isInitialized.
CapabilityMissing ==
    [][/\ (lastCall' = "app:init" /\ lastInit'.camera)
            => (isInitialized' /\ status' = "ready")
       /\ (lastCall' = "app:init" /\ ~lastInit'.camera)
            => (status' = "initFailed" /\ isInitialized' = isInitialized)
       /\ (lastCall' = "startDetection" /\ isInitialized) => isDetecting'
       /\ (lastCall' \in {"startDetection", "app:retry"} /\ ~isInitialized)
            => /\ ~isDetecting'
               /\ initsPending' = initsPending + 1
               /\ status' = "retrying"
       /\ isDetecting' => isInitialized']_vars

\* a session on the default ROIs has taken samples after one initialisation
\* failed on the camera and the last one, without the assets, opened it
CapabilityMissingWitness ==
    /\ isDetecting
    /\ lastInit.failed
    /\ lastInit.camera
    /\ ~lastInit.assets
    /\ roiRegions = "default"
    /\ addCount > 0

\* size is 2^k for some k
IsPowerOfTwo(size) == \E k \in 0..size : 2 ^ k = size

\* C13. Configuration fatal: new FFT(size) with a size that is not a power of
\* two reports an error.
ConfigurationFatal ==
    (call.fn = "FFT" /\ ~IsPowerOfTwo(call.size)) => call.thrown

\* the peak search was applied to a spectrum that has a local peak
Searched == call.fn = "findRobustPeakFrequency" /\ localPeaks(call.magnitude) # {}

\* the peak that sorts first, and the mean magnitude of the band times 48
BestPeak == First(call.magnitude, localPeaks(call.magnitude))
BandSum == SumSlice(call.magnitude, minIndex, maxIndex)

\* the best peak is below factor / 10 times the mean magnitude of the band
BelowGate(factor) ==
    Mag(call.magnitude, BestPeak) * 10 * (maxIndex - minIndex) < factor * BandSum

\* C14. Significance gate at the canonical threshold: in a detection session
\* the peak search returns no estimate exactly when the best peak is below
\* 1.8 times the mean magnitude of the band (adaptiveThreshold 0.3).
SignificanceGateCanonical ==
    (Searched /\ isDetecting) => (call.result = 0 <=> BelowGate(18))

\* the search got past the significance gate
Significant == Searched /\ ~BelowGate(15 + call.threshold)

\* the peaks within 0.1 Hz of twice / of half the best peak's frequency; a
\* bin is 30 / 512 Hz wide
DoublePeaks ==
    {p \in localPeaks(call.magnitude) : Abs(p - 2 * BestPeak) * 30 * 10 < 512}
HalfPeaks ==
    {p \in localPeaks(call.magnitude) : Abs(2 * p - BestPeak) * 30 * 10 < 2 * 512}

\* C15 as claimed. Octave doubling: when the best peak passes the gate and
\* some peak within 0.1 Hz of 2 * f_best has a magnitude of at least
\* 0.7 * m_best, the search returns such a peak.
OctaveDoublingAsClaimed ==
    Significant =>
        LET strong == {p \in DoublePeaks :
                         10 * Mag(call.magnitude, p)
                            >= 7 * Mag(call.magnitude, BestPeak)}
        IN strong # {} => call.result \in strong

\* C15 as amended. When the best peak passes the gate, the search returns a
\* peak within 0.1 Hz of 2 * f_best exactly when the one of them that sorts
\* first (the highest score) has a magnitude above 0.7 * m_best, and then it
\* returns that one.
OctaveDoubling ==
    Significant =>
        IF /\ DoublePeaks # {}
           /\ 10 * Mag(call.magnitude, First(call.magnitude, DoublePeaks))
                > 7 * Mag(call.magnitude, BestPeak)
        THEN call.result = First(call.magnitude, DoublePeaks)
        ELSE call.result \notin DoublePeaks

\* the search returned a weaker peak at twice the best peak's bin
OctaveDoublingWitness ==
    /\ Significant
    /\ call.result = 2 * BestPeak
    /\ Mag(call.magnitude, call.result) < Mag(call.magnitude, BestPeak)

\* C16 as claimed. Octave halving: when no double-frequency peak is
\* preferred, the search returns a half-frequency peak if and only if some
\* peak within 0.1 Hz of f_best / 2 has a magnitude of at least 0.5 * m_best,
\* 60 * f_best > 120 and 60 * f_best / 2 is in [50, 120]; else it returns
\* f_best.
OctaveHalvingAsClaimed ==
    (Significant /\ call.result \notin DoublePeaks) =>
        LET strong == {p \in HalfPeaks :
                         2 * Mag(call.magnitude, p)
                            >= Mag(call.magnitude, BestPeak)}
        IN IF /\ strong # {}
              /\ 60 * 30 * BestPeak > 120 * 512
              /\ 60 * 30 * BestPeak >= 2 * 50 * 512
              /\ 60 * 30 * BestPeak <= 2 * 120 * 512
           THEN call.result \in strong
           ELSE call.result = BestPeak

\* C16 as amended. When no double-frequency peak is preferred, the search
\* returns the peak within 0.1 Hz of f_best / 2 that sorts first (the highest
\* score) if its magnitude is above 0.5 * m_best, 60 * f_best > 120 and 60
\* times its own frequency is in [50, 120]; else it returns f_best.
OctaveHalving ==
    (Significant /\ call.result \notin DoublePeaks) =>
        IF /\ HalfPeaks # {}
           /\ 2 * Mag(call.magnitude, First(call.magnitude, HalfPeaks))
                > Mag(call.magnitude, BestPeak)
           /\ 60 * 30 * BestPeak > 120 * 512
           /\ 60 * 30 * First(call.magnitude, HalfPeaks) >= 50 * 512
           /\ 60 * 30 * First(call.magnitude, HalfPeaks) <= 120 * 512
        THEN call.result = First(call.magnitude, HalfPeaks)
        ELSE call.result = BestPeak

\* the search returned a weaker peak at half the best peak's bin
OctaveHalvingWitness ==
    /\ Significant
    /\ 2 * call.result = BestPeak
    /\ Mag(call.magnitude, call.result) < Mag(call.magnitude, BestPeak)

\* bin i is below the Nyquist bin, its frequency i * 30 / 512 Hz is in
\* [0.7, 3.5] Hz, and its magnitude is above both neighbours'
InBandLocalMaximum(i) ==
    /\ 2 * i < fftSize
    /\ 7 * fftSize <= 10 * SampleRate * i
    /\ 10 * SampleRate * i <= 35 * fftSize
    /\ Mag(call.magnitude, i) > Mag(call.magnitude, i - 1)
    /\ Mag(call.magnitude, i) > Mag(call.magnitude, i + 1)

\* C17. Peak enumeration band: the candidate list of a search holds every
\* bin below N / 2 whose frequency is in [0.7, 3.5] Hz and whose magnitude is
\* a strict local maximum, and no other bin.
PeakEnumerationBand ==
    call.fn = "findRobustPeakFrequency" =>
        call.peaks = {i \in 1..(fftSize - 1) : InBandLocalMaximum(i)}

\* the BPM of the selected peak, 60 * peak * 30 / 512, times 512
PeakBPM == 60 * SampleRate * call.peak

\* the BPM after the range-based rescue, times 1024
RescuedBPM ==
    IF /\ 25 * fftSize <= PeakBPM /\ PeakBPM < 50 * fftSize
       /\ 50 * fftSize <= 2 * PeakBPM /\ 2 * PeakBPM <= 200 * fftSize
    THEN 4 * PeakBPM
    ELSE IF /\ 150 * fftSize < PeakBPM /\ PeakBPM <= 400 * fftSize
            /\ 50 * 2 * fftSize <= PeakBPM /\ PeakBPM <= 150 * 2 * fftSize
    THEN PeakBPM
    ELSE 2 * PeakBPM

\* C18. Range-based rescue: a BPM in [25, 50) is replaced by 2 * bpm when
\* that is in [50, 200], a BPM in (150, 400] by bpm / 2 when that is in
\* [50, 150], any other BPM is left as it is; the result is the rounding of
\* that value when it is in [40, 220], and null otherwise.
RangeRescue ==
    (call.fn = "calculateHeartRate" /\ call.length >= MinEstimateLength) =>
        IF 40 * 2 * fftSize <= RescuedBPM /\ RescuedBPM <= 220 * 2 * fftSize
        THEN IsRounded(call.result, 2 * fftSize, RescuedBPM)
        ELSE call.result = Null

\* an estimate from the highest bin, halved: 200.39 BPM becomes 100
RangeRescueWitness ==
    /\ call.fn = "calculateHeartRate"
    /\ call.length >= MinEstimateLength
    /\ call.peak = maxIndex - 2
    /\ call.result = 100

\* the coefficients adaptiveSignalProcessing selects for the motion state of
\* the current motion buffer
CurrentCoefficients == <<AdaptiveLowPass(hasMotion), AdaptiveHighPass(hasMotion)>>

\* C19. Bandpass coefficients follow the current motion state: in every
\* processing request the bandpass step runs with (0.10, 0.99) when motion is
\* detected on the current motion buffer and with (0.15, 0.98) otherwise,
\* never with the coefficients of an earlier request's motion state.
BandPassFollowsMotion ==
    \A i \in 1..Len(bandPassRuns) : bandPassRuns[i] = CurrentCoefficients

\* the operations that draw the overlay
OverlayWrites == {"drawFaceBox", "drawROI"}

\* C20. Sampler before overlay: within every tick all overlay writes to the
\* canvas (face box, ROI rectangles and labels) come after the sampler's read
\* of the canvas pixels.
SamplerBeforeOverlay ==
    \A i, j \in 1..Len(canvasLog) :
        (canvasLog[i] \in OverlayWrites /\ canvasLog[j] = "getImageData") => j < i

\* C21. Minimum-data policy: getProcessedSignal returns null if and only if
\* signalBuffer holds fewer than 30 samples; getSignalQuality returns
\* 'insufficient' if and only if it holds fewer than 30, and with 30 or more
\* the label is one of excellent, good, fair, poor.
MinimumData ==
    call.fn = "getSignalQuality" =>
        /\ call.signal = Null <=> Len(signalBuffer) < 30
        /\ call.result = "insufficient" <=> Len(signalBuffer) < 30
        /\ Len(signalBuffer) >= 30
              => call.result \in {"excellent", "good", "fair", "poor"}

\* a label other than 'insufficient' on exactly 30 samples
MinimumDataWitness ==
    /\ call.fn = "getSignalQuality"
    /\ Len(signalBuffer) = 30
    /\ call.signal # Null
    /\ call.result = "fair"

SampleBuffers == <<signalBuffer, motionRobustBuffer, heartRateHistory, chartData>>

SingleTimer ==
    /\ [](Cardinality(timers) <= 1 /\ (timers # {} <=> isDetecting))
    /\ [][(isDetecting' = isDetecting) => (timers' = timers)]_vars

\* a start click in a running session that has taken frames
SingleTimerWitness ==
    /\ lastCall = "startDetection"
    /\ isDetecting
    /\ frameCount > 0
    /\ Cardinality(timers) = 1

====
